---- MODULE Spec2Model ----
(***************************************************************************)
(* A model of the thesis experiment engine: the staged Experiment builder, *)
(* the rollout strategies, and the run / run_result algorithms, with the   *)
(* two branch futures polled in every interleaving a join allows.          *)
(***************************************************************************)
EXTENDS Integers, Sequences, FiniteSets, TLC

\* ---------------------------------------------------------------- bounds
\* Largest payload a computation can produce (payloads are 0..MaxVal).
MaxVal == 2
\* Largest error payload of an Err (errors are 0..MaxErr).
MaxErr == 1
\* Largest number of times a branch future returns Pending before Ready.
MaxYields == 1
\* The uniform draw r in [0,1) is k / RngDenom for k in 0..RngDenom-1.
RngDenom == 4

\* Percent::new divides its argument by 100.0
PercentScale == 100

Names == {"test", "redis migration"}
PercentInputs == {0, 5, 50, 100}

\* ---------------------------------------------------------------- values
\* Every output is a tagged record so that values of T and of Result<T, Err>
\* are compared structurally, as PartialEq does.
Val(a) == [tag |-> "Val", v |-> a]
Ok(a) == [tag |-> "Ok", v |-> a]
Err(e) == [tag |-> "Err", v |-> e]
NoValue == [tag |-> "None", v |-> 0]

PlainOutputs == {Val(a) : a \in 0..MaxVal}
ResultOutputs == {Ok(a) : a \in 0..MaxVal} \cup {Err(e) : e \in 0..MaxErr}
Outputs(result_type) == IF result_type = "Plain" THEN PlainOutputs ELSE ResultOutputs
ResultTypes == {"Plain", "Result"}

\* The unset stage `()`.
Unit == [type |-> "Unit"]
\* An async computation: it returns Pending `yields` times, then Ready(out).
Future(out, yields) == [type |-> "Future", out |-> out, yields |-> yields]
\* An async computation that returns Pending and never wakes its task again.
Never == [type |-> "Never", out |-> NoValue, yields |-> 0]
Futures(result_type) == {Future(o, y) : o \in Outputs(result_type), y \in 0..MaxYields}

\* ------------------------------------------------------- rollout strategy
UseControl == "UseControl"
UseExperimentalAndCompare == "UseExperimentalAndCompare"
UseExperimental == "UseExperimental"
RolloutDecision == {UseControl, UseExperimentalAndCompare, UseExperimental}

\* impl RolloutStrategy for RolloutDecision: the strategy is the decision.
Fixed(d) == [type |-> "RolloutDecision", d |-> d, num |-> 0, den |-> 1]

\* Percent::new(percent) stores percent / 100.0, kept as the ratio num/den.
Percent_new(percent) == [type |-> "Percent", d |-> "none", num |-> percent, den |-> PercentScale]

Strategies == {Fixed(d) : d \in RolloutDecision} \cup {Percent_new(x) : x \in PercentInputs}

\* Whether a strategy draws from the random number generator.
Draws(strategy) == strategy.type = "Percent"
NoDraw == -1

rollout_decision_le(strategy, r) ==
    IF strategy.type = "RolloutDecision" THEN strategy.d
    ELSE IF r * strategy.den <= strategy.num * RngDenom
         THEN UseExperimentalAndCompare
         ELSE UseControl

\* rollout_decision: r is the numerator of the value gen::<f64>() drew,
\* r / RngDenom; the test is r / RngDenom < num / den.
rollout_decision(strategy, r) ==
    IF strategy.type = "RolloutDecision" THEN strategy.d
    ELSE IF r * strategy.den < strategy.num * RngDenom
         THEN UseExperimentalAndCompare
         ELSE UseControl

\* ------------------------------------------------------- mismatch handler
Mismatch(control, experimental) == [control |-> control, experimental |-> experimental]

AlwaysControl == [type |-> "AlwaysControl", f |-> "none"]
FnTrait(f) == [type |-> "FnTrait", f |-> f]
\* The closures a caller hands to on_mismatch: return the control field, the
\* experimental field, or a value of its own.
Closures == {"control", "experimental", "third"}
\* A handler for Result values may also answer a mismatch with an error of
\* its own.
ClosuresFor(result_type) ==
    IF result_type = "Result" THEN Closures \cup {"fail"} ELSE Closures
Handlers == {AlwaysControl} \cup {FnTrait(f) : f \in ClosuresFor("Result")}

\* The value the "third" closure returns.
Third(mismatch) ==
    IF mismatch.control.tag = "Val" THEN Val(MaxVal) ELSE Ok(MaxVal)

\* The error the "fail" closure returns.
Fail(mismatch) == Err(MaxErr)

\* MismatchHandler::on_mismatch for AlwaysControl and for FnTrait(f).
on_mismatch_handler(handler, mismatch) ==
    IF handler.type = "AlwaysControl" THEN mismatch.control
    ELSE IF handler.f = "control" THEN mismatch.control
    ELSE IF handler.f = "experimental" THEN mismatch.experimental
    ELSE IF handler.f = "fail" THEN Fail(mismatch)
    ELSE Third(mismatch)

\* ------------------------------------------------------------- signals
counter(metric, name, kind, out) == [metric |-> metric, name |-> name, kind |-> kind, outcome |-> out]

run_total(name) == counter("thesis_experiment_run_total", name, "none", "none")
run_variant(name, kind) == counter("thesis_experiment_run_variant", name, kind, "none")
outcome_error(name, kind) == counter("thesis_experiment_outcome", name, kind, "error")
outcome_ok(name, kind) == counter("thesis_experiment_outcome", name, kind, "ok")
outcome_mismatch(name) == counter("thesis_experiment_outcome", name, "experimental_and_compare", "mismatch")
outcome(name, kind, result) ==
    IF result.tag = "Ok" THEN outcome_ok(name, kind) ELSE outcome_error(name, kind)

VariantKind(d) == IF d = UseControl THEN "control" ELSE "experimental_and_compare"

\* -------------------------------------------------------------- builder
\* Experiment::new: every stage unset, the handler defaulting to AlwaysControl.
new(name, result_type) ==
    [result_type |-> result_type, name |-> name,
     control_builder |-> Unit, experimental_builder |-> Unit,
     rollout_strategy |-> Unit, mismatch_handler |-> AlwaysControl]

\* The trait bounds of run / run_result: C and E are futures, R a strategy.
Runnable(e) ==
    /\ e.control_builder /= Unit
    /\ e.experimental_builder /= Unit
    /\ e.rollout_strategy /= Unit

\* ------------------------------------------------------- execution engine
\* The state of one branch future: how often it was polled, whether it is
\* complete, and its output once complete.
Idle == [polls |-> 0, done |-> FALSE, out |-> NoValue]

poll_retries_err(future, st) ==
    IF future.type = "Never" \/ st.polls < future.yields
    THEN [st EXCEPT !.polls = @ + 1]
    ELSE IF future.out.tag = "Err" /\ st.polls < 2 * future.yields + 1
    THEN [st EXCEPT !.polls = @ + 1]
    ELSE [polls |-> st.polls + 1, done |-> TRUE, out |-> future.out]

poll_gives_up(future, st) ==
    IF future.type /= "Never" /\ st.polls < future.yields
    THEN [st EXCEPT !.polls = @ + 1]
    ELSE [polls |-> st.polls + 1, done |-> TRUE, out |-> future.out]

\* One poll of a future: Pending while it still has to yield, then Ready.
poll(future, st) ==
    IF future.type = "Never" \/ st.polls < future.yields
    THEN [st EXCEPT !.polls = @ + 1]
    ELSE [polls |-> st.polls + 1, done |-> TRUE, out |-> future.out]

\* Whether the branch can be polled again: a computation that never completes
\* is polled once and then never wakes the task.
Awake(future, st) == future.type /= "Never" \/ st.polls = 0

\* The decisions run and run_result have a match arm for.
Handled == {UseControl, UseExperimentalAndCompare}

Driven_both(d) ==
    IF d \in Handled THEN {"control", "experimental"} ELSE {}

\* The branch futures an arm awaits: the control alone, or both in a join.
Driven(d) ==
    IF d = UseControl THEN {"control"}
    ELSE IF d = UseExperimentalAndCompare THEN {"control", "experimental"}
    ELSE {}

JoinReady_select(d, cdone, edone) ==
    IF d = UseControl THEN cdone ELSE cdone \/ edone

JoinReady_control_first(d, cdone, edone) == cdone

\* `.await` on the control future, or tokio::join! on both: the arm resumes
\* once every future it awaits is complete.
JoinReady(d, cdone, edone) ==
    IF d = UseControl THEN cdone ELSE cdone /\ edone

Outcome(ret, calls, sigs) == [ret |-> ret, calls |-> calls, signals |-> sigs]

run_compare_ignores_handler(name, control, experimental, handler) ==
    IF control /= experimental
    THEN Outcome(control, <<Mismatch(control, experimental)>>, <<outcome_mismatch(name)>>)
    ELSE Outcome(control, <<>>, <<>>)

run_compare_swapped(name, control, experimental, handler) ==
    IF control /= experimental
    THEN Outcome(on_mismatch_handler(handler, Mismatch(experimental, control)),
                 <<Mismatch(experimental, control)>>,
                 <<outcome_mismatch(name)>>)
    ELSE Outcome(control, <<>>, <<>>)

run_compare_calls_twice(name, control, experimental, handler) ==
    IF control /= experimental
    THEN Outcome(on_mismatch_handler(handler, Mismatch(control, experimental)),
                 <<Mismatch(control, experimental), Mismatch(control, experimental)>>,
                 <<outcome_mismatch(name)>>)
    ELSE Outcome(control, <<>>, <<>>)

\* run, after the join: compare, and hand a difference to the handler.
run_compare(name, control, experimental, handler) ==
    IF control /= experimental
    THEN Outcome(on_mismatch_handler(handler, Mismatch(control, experimental)),
                 <<Mismatch(control, experimental)>>,
                 <<outcome_mismatch(name)>>)
    ELSE Outcome(control, <<>>, <<>>)

run_result_match_asks_on_exp_err(name, control, experimental, handler) ==
    IF control.tag = "Ok" /\ experimental.tag = "Ok" /\ control.v = experimental.v
    THEN Outcome(control, <<>>, <<>>)
    ELSE IF control.tag = "Err" /\ experimental.tag = "Err"
    THEN Outcome(control, <<>>, <<>>)
    ELSE Outcome(on_mismatch_handler(handler, Mismatch(control, experimental)),
                 <<Mismatch(control, experimental)>>,
                 <<outcome_mismatch(name)>>)

run_result_match_propagates_err(name, control, experimental, handler) ==
    IF control.tag = "Err"
    THEN Outcome(control, <<>>, <<>>)
    ELSE IF experimental.tag = "Err"
    THEN Outcome(control, <<>>, <<outcome_mismatch(name)>>)
    ELSE IF control.v /= experimental.v
    THEN Outcome(on_mismatch_handler(handler, Mismatch(control, experimental)),
                 <<Mismatch(control, experimental)>>,
                 <<outcome_mismatch(name)>>)
    ELSE Outcome(control, <<>>, <<>>)

run_result_match_last_err(name, control, experimental, handler) ==
    IF control.tag = "Ok" /\ experimental.tag = "Ok"
    THEN IF control.v /= experimental.v
         THEN Outcome(on_mismatch_handler(handler, Mismatch(control, experimental)),
                      <<Mismatch(control, experimental)>>,
                      <<outcome_mismatch(name)>>)
         ELSE Outcome(control, <<>>, <<>>)
    ELSE IF control.tag = "Ok"
    THEN Outcome(control, <<>>, <<outcome_mismatch(name)>>)
    ELSE IF experimental.tag = "Ok"
    THEN Outcome(on_mismatch_handler(handler, Mismatch(control, experimental)),
                 <<Mismatch(control, experimental)>>,
                 <<outcome_mismatch(name)>>)
    ELSE Outcome(experimental, <<>>, <<>>)

run_result_match_no_compare(name, control, experimental, handler) ==
    IF control.tag = "Ok"
    THEN Outcome(control, <<>>,
                 IF experimental.tag = "Ok" THEN <<>> ELSE <<outcome_mismatch(name)>>)
    ELSE IF experimental.tag = "Ok"
    THEN Outcome(on_mismatch_handler(handler, Mismatch(control, experimental)),
                 <<Mismatch(control, experimental)>>,
                 <<outcome_mismatch(name)>>)
    ELSE Outcome(control, <<>>, <<>>)

run_result_match_err_err_mismatch(name, control, experimental, handler) ==
    IF control.tag = "Ok" /\ experimental.tag = "Ok"
    THEN IF control.v /= experimental.v
         THEN Outcome(on_mismatch_handler(handler, Mismatch(control, experimental)),
                      <<Mismatch(control, experimental)>>,
                      <<outcome_mismatch(name)>>)
         ELSE Outcome(control, <<>>, <<>>)
    ELSE IF control.tag = "Ok"
    THEN Outcome(control, <<>>, <<outcome_mismatch(name)>>)
    ELSE IF experimental.tag = "Ok"
    THEN Outcome(on_mismatch_handler(handler, Mismatch(control, experimental)),
                 <<Mismatch(control, experimental)>>,
                 <<outcome_mismatch(name)>>)
    ELSE Outcome(control, <<>>, <<outcome_mismatch(name)>>)

run_result_match_exp_err_wins(name, control, experimental, handler) ==
    IF control.tag = "Ok" /\ experimental.tag = "Ok"
    THEN IF control.v /= experimental.v
         THEN Outcome(on_mismatch_handler(handler, Mismatch(control, experimental)),
                      <<Mismatch(control, experimental)>>,
                      <<outcome_mismatch(name)>>)
         ELSE Outcome(control, <<>>, <<>>)
    ELSE IF control.tag = "Ok"
    THEN Outcome(experimental, <<>>, <<outcome_mismatch(name)>>)
    ELSE IF experimental.tag = "Ok"
    THEN Outcome(on_mismatch_handler(handler, Mismatch(control, experimental)),
                 <<Mismatch(control, experimental)>>,
                 <<outcome_mismatch(name)>>)
    ELSE Outcome(control, <<>>, <<>>)

run_result_match_falls_back(name, control, experimental, handler) ==
    IF control.tag = "Ok" /\ experimental.tag = "Ok"
    THEN IF control.v /= experimental.v
         THEN Outcome(on_mismatch_handler(handler, Mismatch(control, experimental)),
                      <<Mismatch(control, experimental)>>,
                      <<outcome_mismatch(name)>>)
         ELSE Outcome(control, <<>>, <<>>)
    ELSE IF control.tag = "Ok"
    THEN Outcome(control, <<>>, <<outcome_mismatch(name)>>)
    ELSE IF experimental.tag = "Ok"
    THEN Outcome(experimental, <<>>, <<outcome_mismatch(name)>>)
    ELSE Outcome(control, <<>>, <<>>)

\* run_result, after the join and the two outcome signals: the match on
\* (control, experimental).
run_result_match(name, control, experimental, handler) ==
    IF control.tag = "Ok" /\ experimental.tag = "Ok"
    THEN IF control.v /= experimental.v
         THEN Outcome(on_mismatch_handler(handler, Mismatch(control, experimental)),
                      <<Mismatch(control, experimental)>>,
                      <<outcome_mismatch(name)>>)
         ELSE Outcome(control, <<>>, <<>>)
    ELSE IF control.tag = "Ok"
    THEN Outcome(control, <<>>, <<outcome_mismatch(name)>>)
    ELSE IF experimental.tag = "Ok"
    THEN Outcome(on_mismatch_handler(handler, Mismatch(control, experimental)),
                 <<Mismatch(control, experimental)>>,
                 <<outcome_mismatch(name)>>)
    ELSE Outcome(control, <<>>, <<>>)

\* The rest of the arm once its await has resumed.
Arm(m, d, name, c, e, handler) ==
    IF d = UseControl
    THEN IF m = "run"
         THEN Outcome(c, <<>>, <<>>)
         ELSE Outcome(c, <<>>, <<outcome(name, "control", c)>>)
    ELSE IF m = "run"
         THEN run_compare(name, c, e, handler)
         ELSE LET r == run_result_match(name, c, e, handler)
              IN Outcome(r.ret, r.calls,
                         <<outcome(name, "control", c),
                           outcome(name, "experimental", e)>> \o r.signals)

VARIABLES
    exp,          \* the Experiment value the builder has produced so far
    pc,           \* "build", "running", "done", or "nomatch"
    method,       \* "none", "run" or "run_result"
    rng,          \* numerator of the value drawn by the strategy, or NoDraw
    decision,     \* the RolloutDecision of this execution, or "none"
    decisions,    \* what each call of rollout_decision returned, in order
    ctl,          \* state of the control future
    expl,         \* state of the experimental future
    handlerCalls, \* the Mismatch values the handler was invoked with
    signals,      \* the counters emitted, in order
    result,       \* the value returned, NoValue until then
    lastSet       \* history: the last argument each builder operation was given

vars == <<exp, pc, method, rng, decision, decisions, ctl, expl, handlerCalls, signals, result, lastSet>>

execVars == <<pc, method, rng, decision, decisions, ctl, expl, handlerCalls, signals, result>>

\* The history before any builder operation: only new(name) has been called.
NothingSet(name, result_type) ==
    [name |-> name, result_type |-> result_type,
     control |-> Unit, experimental |-> Unit,
     rollout_strategy |-> Unit, on_mismatch |-> "none"]

Init ==
    /\ \E n \in Names, t \in ResultTypes :
         /\ exp = new(n, t)
         /\ lastSet = NothingSet(n, t)
    /\ pc = "build"
    /\ method = "none"
    /\ rng = NoDraw
    /\ decision = "none"
    /\ decisions = <<>>
    /\ ctl = Idle
    /\ expl = Idle
    /\ handlerCalls = <<>>
    /\ signals = <<>>
    /\ result = NoValue

control_resets_handler ==
    /\ pc = "build"
    /\ \E f \in Futures(exp.result_type) :
         /\ exp' = [control_builder |-> f,
                    name |-> exp.name,
                    experimental_builder |-> exp.experimental_builder,
                    result_type |-> exp.result_type,
                    rollout_strategy |-> exp.rollout_strategy,
                    mismatch_handler |-> AlwaysControl]
         /\ lastSet' = [lastSet EXCEPT !.control = f]
    /\ UNCHANGED execVars

\* ---- builder operations: each replaces its own stage
control ==
    /\ pc = "build"
    /\ \E f \in Futures(exp.result_type) :
         /\ exp' = [control_builder |-> f,
                    name |-> exp.name,
                    experimental_builder |-> exp.experimental_builder,
                    result_type |-> exp.result_type,
                    rollout_strategy |-> exp.rollout_strategy,
                    mismatch_handler |-> exp.mismatch_handler]
         /\ lastSet' = [lastSet EXCEPT !.control = f]
    /\ UNCHANGED execVars

experimental ==
    /\ pc = "build"
    /\ \E f \in Futures(exp.result_type) :
         /\ exp' = [experimental_builder |-> f,
                    name |-> exp.name,
                    result_type |-> exp.result_type,
                    control_builder |-> exp.control_builder,
                    rollout_strategy |-> exp.rollout_strategy,
                    mismatch_handler |-> exp.mismatch_handler]
         /\ lastSet' = [lastSet EXCEPT !.experimental = f]
    /\ UNCHANGED execVars

rollout_strategy ==
    /\ pc = "build"
    /\ \E s \in Strategies :
         /\ exp' = [rollout_strategy |-> s,
                    name |-> exp.name,
                    result_type |-> exp.result_type,
                    control_builder |-> exp.control_builder,
                    experimental_builder |-> exp.experimental_builder,
                    mismatch_handler |-> exp.mismatch_handler]
         /\ lastSet' = [lastSet EXCEPT !.rollout_strategy = s]
    /\ UNCHANGED execVars

on_mismatch ==
    /\ pc = "build"
    /\ \E f \in ClosuresFor(exp.result_type) :
         /\ exp' = [mismatch_handler |-> FnTrait(f),
                    name |-> exp.name,
                    rollout_strategy |-> exp.rollout_strategy,
                    result_type |-> exp.result_type,
                    control_builder |-> exp.control_builder,
                    experimental_builder |-> exp.experimental_builder]
         /\ lastSet' = [lastSet EXCEPT !.on_mismatch = f]
    /\ UNCHANGED execVars

Start_draws_twice(m) ==
    /\ pc = "build"
    /\ Runnable(exp)
    /\ \E r1, r2 \in (IF Draws(exp.rollout_strategy) THEN 0..(RngDenom - 1) ELSE {NoDraw}) :
         LET d1 == rollout_decision(exp.rollout_strategy, r1)
             d2 == rollout_decision(exp.rollout_strategy, r2)
         IN /\ rng' = r2
            /\ decision' = d2
            /\ decisions' = decisions \o <<d1, d2>>
            /\ pc' = IF d2 \in Handled THEN "running" ELSE "nomatch"
            /\ signals' = IF d1 \in Handled
                          THEN <<run_total(exp.name), run_variant(exp.name, VariantKind(d1))>>
                          ELSE <<run_total(exp.name)>>
    /\ method' = m
    /\ UNCHANGED <<exp, ctl, expl, handlerCalls, result, lastSet>>

\* ---- run / run_result up to their await: the run counter, the rollout
\* decision, and the variant counter of the arm taken (if there is one).
Start(m) ==
    /\ pc = "build"
    /\ Runnable(exp)
    /\ \E r \in (IF Draws(exp.rollout_strategy) THEN 0..(RngDenom - 1) ELSE {NoDraw}) :
         LET d == rollout_decision(exp.rollout_strategy, r)
         IN /\ rng' = r
            /\ decision' = d
            /\ decisions' = decisions \o <<d>>
            /\ pc' = IF d \in Handled THEN "running" ELSE "nomatch"
            /\ signals' = IF d \in Handled
                          THEN <<run_total(exp.name), run_variant(exp.name, VariantKind(d))>>
                          ELSE <<run_total(exp.name)>>
    /\ method' = m
    /\ UNCHANGED <<exp, ctl, expl, handlerCalls, result, lastSet>>

run ==
    /\ exp.result_type = "Plain"
    /\ Start("run")

run_result ==
    /\ exp.result_type = "Result"
    /\ Start("run_result")

\* After a poll left the branches in states c and e: either the arm is still
\* suspended, or it resumes and runs to its return.
Resume(c, e) ==
    IF JoinReady(decision, c.done, e.done)
    THEN LET o == Arm(method, decision, exp.name, c.out, e.out, exp.mismatch_handler)
         IN /\ pc' = "done"
            /\ result' = o.ret
            /\ handlerCalls' = handlerCalls \o o.calls
            /\ signals' = signals \o o.signals
    ELSE UNCHANGED <<pc, result, handlerCalls, signals>>

PollControl ==
    /\ pc = "running"
    /\ "control" \in Driven(decision)
    /\ ~ctl.done
    /\ Awake(exp.control_builder, ctl)
    /\ ctl' = poll(exp.control_builder, ctl)
    /\ Resume(ctl', expl)
    /\ UNCHANGED <<exp, method, rng, decision, decisions, expl, lastSet>>

PollExperimental ==
    /\ pc = "running"
    /\ "experimental" \in Driven(decision)
    /\ ~expl.done
    /\ Awake(exp.experimental_builder, expl)
    /\ expl' = poll(exp.experimental_builder, expl)
    /\ Resume(ctl, expl')
    /\ UNCHANGED <<exp, method, rng, decision, decisions, ctl, lastSet>>

Next ==
    \/ control
    \/ experimental
    \/ rollout_strategy
    \/ on_mismatch
    \/ run
    \/ run_result
    \/ PollControl
    \/ PollExperimental

Spec == Init /\ [][Next]_vars

\* ---- the builder given computations that never complete
control_never ==
    /\ pc = "build"
    /\ exp' = [control_builder |-> Never,
               name |-> exp.name,
               experimental_builder |-> exp.experimental_builder,
               result_type |-> exp.result_type,
               rollout_strategy |-> exp.rollout_strategy,
               mismatch_handler |-> exp.mismatch_handler]
    /\ lastSet' = [lastSet EXCEPT !.control = Never]
    /\ UNCHANGED execVars

experimental_never ==
    /\ pc = "build"
    /\ exp' = [experimental_builder |-> Never,
               name |-> exp.name,
               result_type |-> exp.result_type,
               control_builder |-> exp.control_builder,
               rollout_strategy |-> exp.rollout_strategy,
               mismatch_handler |-> exp.mismatch_handler]
    /\ lastSet' = [lastSet EXCEPT !.experimental = Never]
    /\ UNCHANGED execVars

LiveNext ==
    \/ Next
    \/ control_never
    \/ experimental_never

\* The executor polls a task whose future has woken it: each branch that can
\* make progress eventually does.
LiveSpec ==
    /\ Init
    /\ [][LiveNext]_vars
    /\ WF_vars(PollControl)
    /\ WF_vars(PollExperimental)

TypeOK ==
    /\ pc \in {"build", "running", "done", "nomatch"}
    /\ method \in {"none", "run", "run_result"}
    /\ decision \in RolloutDecision \cup {"none"}
    /\ rng \in {NoDraw} \cup 0..(RngDenom - 1)
    /\ exp.mismatch_handler \in Handlers

\* ------------------------------------------------------------ properties
\* The outputs the two configured computations produce.
c_out == exp.control_builder.out
e_out == exp.experimental_builder.out

Compared == pc = "done" /\ decision = UseExperimentalAndCompare

\* C1: whenever the strategy returns UseControl, run and run_result return
\* exactly the control computation's output, the experimental computation is
\* never polled, and the mismatch handler is never invoked.
C1_UseControlRunsOnlyControl ==
    decision = UseControl =>
        /\ expl = Idle
        /\ handlerCalls = <<>>
        /\ pc = "done" => result = c_out

C1_Witness ==
    /\ pc = "done"
    /\ decision = UseControl
    /\ method = "run_result"
    /\ c_out = Err(0)
    /\ e_out = Ok(1)
    /\ result = Err(0)

\* C2: in run under UseExperimentalAndCompare with differing outputs c and e,
\* the handler is invoked exactly once, with Mismatch{control: c,
\* experimental: e}, and run returns what the handler returns.
C2_RunMismatchGoesToHandler ==
    (Compared /\ method = "run" /\ c_out /= e_out) =>
        /\ handlerCalls = <<[control |-> c_out, experimental |-> e_out]>>
        /\ exp.mismatch_handler \in {AlwaysControl, FnTrait("control")} => result = c_out
        /\ exp.mismatch_handler = FnTrait("experimental") => result = e_out
        /\ exp.mismatch_handler = FnTrait("third") => result = Val(MaxVal)

C2_Witness ==
    /\ Compared
    /\ method = "run"
    /\ c_out = Val(0)
    /\ e_out = Val(1)
    /\ exp.mismatch_handler = FnTrait("third")
    /\ result = Val(MaxVal)
    /\ Len(handlerCalls) = 1

\* C3: if the control and the experimental computation produce equal values,
\* run returns that value under every rollout decision (UseControl,
\* UseExperimentalAndCompare and UseExperimental) without invoking the handler.
C3_EqualOutputsReturnedUnderEveryDecision ==
    (method = "run" /\ pc \in {"done", "nomatch"} /\ c_out = e_out) =>
        /\ result = c_out
        /\ handlerCalls = <<>>

\* C4: in run_result under UseExperimentalAndCompare with control Ok(a) and
\* experimental Err(_), the result is Ok(a), the handler is not invoked, and
\* the experimental computation has run to completion.
C4_ExperimentalErrDiscarded ==
    (Compared /\ method = "run_result" /\ c_out.tag = "Ok" /\ e_out.tag = "Err") =>
        /\ result = c_out
        /\ handlerCalls = <<>>
        /\ expl.done
        /\ expl.out = e_out

C4_Witness ==
    /\ Compared
    /\ method = "run_result"
    /\ c_out = Ok(1)
    /\ e_out = Err(0)
    /\ exp.mismatch_handler = FnTrait("experimental")
    /\ result = Ok(1)
    /\ expl.done

\* C5: in run_result under UseExperimentalAndCompare with control Err(e) and
\* experimental Ok(b), the handler is invoked exactly once with
\* Mismatch{control: Err(e), experimental: Ok(b)} and run_result returns what
\* the handler returns; a handler returning the experimental field gives Ok(b).
C5_ControlErrGoesToHandler ==
    (Compared /\ method = "run_result" /\ c_out.tag = "Err" /\ e_out.tag = "Ok") =>
        /\ handlerCalls = <<[control |-> c_out, experimental |-> e_out]>>
        /\ exp.mismatch_handler \in {AlwaysControl, FnTrait("control")} => result = c_out
        /\ exp.mismatch_handler = FnTrait("experimental") => result = e_out
        /\ exp.mismatch_handler = FnTrait("third") => result = Ok(MaxVal)
        /\ exp.mismatch_handler = FnTrait("fail") => result = Err(MaxErr)

C5_Witness ==
    /\ Compared
    /\ method = "run_result"
    /\ c_out = Err(1)
    /\ e_out = Ok(1)
    /\ exp.mismatch_handler = FnTrait("experimental")
    /\ result = Ok(1)
    /\ Len(handlerCalls) = 1

\* C6: in run_result under UseExperimentalAndCompare with both branches
\* failing, the result is the control's error and the handler is not invoked.
C6_BothErrReturnsControlErr ==
    (Compared /\ method = "run_result" /\ c_out.tag = "Err" /\ e_out.tag = "Err") =>
        /\ result = c_out
        /\ handlerCalls = <<>>

C6_Witness ==
    /\ Compared
    /\ method = "run_result"
    /\ c_out = Err(0)
    /\ e_out = Err(1)
    /\ result = Err(0)

\* C7: in run_result under UseExperimentalAndCompare with control Ok(a) and
\* experimental Ok(b): if a = b the result is Ok(a) and the handler is not
\* invoked; if a /= b the handler is invoked exactly once with
\* Mismatch{control: Ok(a), experimental: Ok(b)} and its value is returned.
C7_BothOkComparesPayloads ==
    (Compared /\ method = "run_result" /\ c_out.tag = "Ok" /\ e_out.tag = "Ok") =>
        IF c_out.v = e_out.v
        THEN /\ result = c_out
             /\ handlerCalls = <<>>
        ELSE /\ handlerCalls = <<[control |-> c_out, experimental |-> e_out]>>
             /\ exp.mismatch_handler \in {AlwaysControl, FnTrait("control")} => result = c_out
             /\ exp.mismatch_handler = FnTrait("experimental") => result = e_out
             /\ exp.mismatch_handler = FnTrait("third") => result = Ok(MaxVal)
             /\ exp.mismatch_handler = FnTrait("fail") => result = Err(MaxErr)

C7_Witness ==
    /\ Compared
    /\ method = "run_result"
    /\ c_out = Ok(0)
    /\ e_out = Ok(1)
    /\ exp.mismatch_handler = FnTrait("experimental")
    /\ result = Ok(1)
    /\ Len(handlerCalls) = 1

\* The arm of this execution has got past its await: it has emitted a signal
\* after the variant counter, invoked the handler, or returned.
PastAwait == pc = "done" \/ handlerCalls /= <<>> \/ result /= NoValue \/ Len(signals) > 2

\* C8: under UseExperimentalAndCompare, run and run_result neither compare,
\* invoke the handler nor return before both computations have completed, and
\* a branch that has completed leaves the other one running until it completes
\* with its own output.
C8_NoShortCircuit ==
    decision = UseExperimentalAndCompare =>
        /\ PastAwait =>
              /\ ctl.done /\ ctl.out = c_out /\ ctl.polls = exp.control_builder.yields + 1
              /\ expl.done /\ expl.out = e_out /\ expl.polls = exp.experimental_builder.yields + 1
        /\ (pc = "running" /\ ctl.done) => (~expl.done /\ ENABLED PollExperimental)
        /\ (pc = "running" /\ expl.done) => (~ctl.done /\ ENABLED PollControl)

C8_Witness ==
    /\ Compared
    /\ method = "run_result"
    /\ e_out.tag = "Err"
    /\ exp.experimental_builder.yields = 0
    /\ exp.control_builder.yields = MaxYields
    /\ ctl.done
    /\ ctl.polls > expl.polls

\* C9: an experiment built without on_mismatch resolves every mismatch in
\* favour of the control: under UseExperimentalAndCompare, run returns the
\* control's value and run_result the control's Result, the Err(e) of the
\* control-Err / experimental-Ok row included.
C9_DefaultHandlerPrefersControl ==
    (Compared /\ exp.mismatch_handler = AlwaysControl) => result = c_out

C9_Witness ==
    /\ Compared
    /\ exp.mismatch_handler = AlwaysControl
    /\ method = "run_result"
    /\ c_out = Err(0)
    /\ e_out = Ok(1)
    /\ result = Err(0)
    /\ Len(handlerCalls) = 1

\* C10: Percent built from x returns UseExperimentalAndCompare exactly when
\* the drawn r satisfies r < x/100 and UseControl otherwise, never
\* UseExperimental; with x = 0 every execution is UseControl and never polls
\* the experimental computation, with x = 100 every execution runs both.
C10_PercentDecision ==
    (exp.rollout_strategy.type = "Percent" /\ pc /= "build") =>
        LET x == exp.rollout_strategy.num
        IN /\ rng \in 0..(RngDenom - 1)
           /\ decision \in {UseControl, UseExperimentalAndCompare}
           /\ decision = UseExperimentalAndCompare <=> PercentScale * rng < x * RngDenom
           /\ x = 0 => (decision = UseControl /\ expl = Idle /\ (pc = "done" => result = c_out))
           /\ x = PercentScale =>
                (decision = UseExperimentalAndCompare /\ (pc = "done" => (ctl.done /\ expl.done)))

C10_Witness ==
    /\ pc = "done"
    /\ method = "run_result"
    /\ exp.rollout_strategy = Percent_new(0)
    /\ c_out = Ok(1)
    /\ e_out = Ok(0)
    /\ result = Ok(1)
    /\ expl = Idle

\* How often the counter x was emitted.
Emitted(x) == Cardinality({i \in 1..Len(signals) : signals[i] = x})

\* The outcome counters of one branch.
BranchSignals(kind) ==
    {i \in 1..Len(signals) :
        /\ signals[i].metric = "thesis_experiment_outcome"
        /\ signals[i].kind = kind}

\* Each branch has emitted exactly one outcome signal, ok or error as its
\* Result is.
OneOutcomePerBranch ==
    /\ Cardinality(BranchSignals("control")) = 1
    /\ Cardinality(BranchSignals("experimental")) = 1
    /\ Emitted(outcome_ok(exp.name, "control")) = (IF c_out.tag = "Ok" THEN 1 ELSE 0)
    /\ Emitted(outcome_error(exp.name, "control")) = (IF c_out.tag = "Err" THEN 1 ELSE 0)
    /\ Emitted(outcome_ok(exp.name, "experimental")) = (IF e_out.tag = "Ok" THEN 1 ELSE 0)
    /\ Emitted(outcome_error(exp.name, "experimental")) = (IF e_out.tag = "Err" THEN 1 ELSE 0)

\* C11 (as stated): in run_result under UseExperimentalAndCompare each branch
\* emits exactly one outcome signal matching its Result, and a "mismatch"
\* signal is emitted in every row but the equal Ok(a)/Ok(a) one, the Err/Err
\* row included.
C11_MismatchSignalInFourRows ==
    (Compared /\ method = "run_result") =>
        /\ OneOutcomePerBranch
        /\ Emitted(outcome_mismatch(exp.name)) =
              (IF c_out.tag = "Ok" /\ c_out = e_out THEN 0 ELSE 1)

\* C11 (amended): each branch emits exactly one outcome signal matching its
\* Result, and a "mismatch" signal is emitted exactly once in the rows
\* Ok/Ok-unequal, Ok/Err and Err/Ok, and not at all in the equal Ok/Ok row
\* nor in the Err/Err row.
C11_MismatchSignalInThreeRows ==
    (Compared /\ method = "run_result") =>
        /\ OneOutcomePerBranch
        /\ Emitted(outcome_mismatch(exp.name)) =
              (IF c_out.tag = "Err" /\ e_out.tag = "Err" THEN 0
               ELSE IF c_out = e_out THEN 0
               ELSE 1)

C11_Witness ==
    /\ Compared
    /\ method = "run_result"
    /\ c_out = Err(0)
    /\ e_out = Err(1)
    /\ Emitted(outcome_error(exp.name, "control")) = 1
    /\ Emitted(outcome_error(exp.name, "experimental")) = 1
    /\ Emitted(outcome_mismatch(exp.name)) = 0

\* The rows in which the handler is consulted: under
\* UseExperimentalAndCompare, two differing values in run, two differing Ok
\* payloads or a control Err opposite an experimental Ok in run_result.
Consulted ==
    /\ decision = UseExperimentalAndCompare
    /\ IF method = "run"
       THEN c_out /= e_out
       ELSE \/ c_out.tag = "Ok" /\ e_out.tag = "Ok" /\ c_out /= e_out
            \/ c_out.tag = "Err" /\ e_out.tag = "Ok"

\* C12: in one execution of run or run_result the handler is invoked at most
\* once, never under UseControl, and only after both branches have completed;
\* a finished execution has invoked it exactly once if it was consulted and
\* not at all otherwise.
C12_HandlerAtMostOnce ==
    /\ Len(handlerCalls) <= 1
    /\ decision = UseControl => handlerCalls = <<>>
    /\ handlerCalls /= <<>> => (ctl.done /\ expl.done)
    /\ pc = "running" => handlerCalls = <<>>
    /\ pc = "done" => Len(handlerCalls) = (IF Consulted THEN 1 ELSE 0)

C12_Witness ==
    /\ pc = "done"
    /\ method = "run"
    /\ Consulted
    /\ exp.control_builder.yields = MaxYields
    /\ exp.experimental_builder.yields = 0
    /\ Len(handlerCalls) = 1
    /\ ctl.done
    /\ expl.done

\* C13: in every execution rollout_decision is called exactly once, before
\* either branch has taken its first step, and that one decision fixes the
\* variant counter, the branches that are polled and the arm that returns.
C13_OneDecisionBeforeBranches ==
    /\ Len(decisions) <= 1
    /\ decisions = <<>> => (pc = "build" /\ ctl = Idle /\ expl = Idle /\ signals = <<>>)
    /\ pc /= "build" =>
          /\ decisions = <<decision>>
          /\ decision = rollout_decision(exp.rollout_strategy, rng)
          /\ ctl.polls > 0 => decisions[1] \in {UseControl, UseExperimentalAndCompare}
          /\ expl.polls > 0 => decisions[1] = UseExperimentalAndCompare
          /\ pc = "done" =>
                /\ ctl.done
                /\ expl.done <=> decisions[1] = UseExperimentalAndCompare
                /\ signals[2] = run_variant(exp.name,
                                    IF decisions[1] = UseControl
                                    THEN "control" ELSE "experimental_and_compare")

C13_Witness ==
    /\ pc = "done"
    /\ exp.rollout_strategy = Percent_new(50)
    /\ rng = 1
    /\ decisions = <<UseExperimentalAndCompare>>
    /\ ctl.polls = MaxYields + 1
    /\ expl.polls = MaxYields + 1

\* A branch has been run through exactly once: polled up to its completion and
\* never again, and its output is the one its computation produces.
RanOnce(st, future) ==
    /\ st.done
    /\ st.polls = future.yields + 1
    /\ st.out = future.out

\* A branch is being run for the first time: not polled more often than its
\* computation yields.
FirstRun(st, future) ==
    /\ ~st.done
    /\ st.polls <= future.yields
    /\ st.out = NoValue

\* C14: the engine never retries: a finished execution has run the control
\* computation exactly once under UseControl and UseExperimentalAndCompare,
\* and the experimental computation exactly once under
\* UseExperimentalAndCompare and not at all under UseControl, whatever the
\* two outcomes are.
C14_NoRetry ==
    /\ pc = "running" =>
          /\ RanOnce(ctl, exp.control_builder) \/ FirstRun(ctl, exp.control_builder)
          /\ IF decision = UseExperimentalAndCompare
             THEN RanOnce(expl, exp.experimental_builder) \/ FirstRun(expl, exp.experimental_builder)
             ELSE expl = Idle
    /\ pc = "done" =>
          /\ RanOnce(ctl, exp.control_builder)
          /\ IF decision = UseExperimentalAndCompare
             THEN RanOnce(expl, exp.experimental_builder)
             ELSE expl = Idle

C14_Witness ==
    /\ pc = "done"
    /\ method = "run_result"
    /\ decision = UseExperimentalAndCompare
    /\ c_out.tag = "Err"
    /\ e_out.tag = "Err"
    /\ exp.control_builder.yields = MaxYields
    /\ ctl.polls = MaxYields + 1
    /\ expl.polls = exp.experimental_builder.yields + 1

\* The experiment that holds, for each stage, the last value a builder
\* operation was given for it, and the defaults of new for the others.
AssembledFrom(h) ==
    [result_type |-> h.result_type,
     name |-> h.name,
     control_builder |-> h.control,
     experimental_builder |-> h.experimental,
     rollout_strategy |-> h.rollout_strategy,
     mismatch_handler |-> IF h.on_mismatch = "none" THEN AlwaysControl ELSE [type |-> "FnTrait", f |-> h.on_mismatch]]

\* C15: each builder operation replaces exactly its own stage and carries the
\* name and every other stage over, so the experiment, and with it what run
\* and run_result do, depends only on the last value given for each stage,
\* not on the order of the calls.
C15_BuilderReplacesOwnStage ==
    /\ exp = AssembledFrom(lastSet)
    /\ pc \in {"running", "done"} =>
          /\ ctl.done => ctl.out = lastSet.control.out
          /\ expl.done => expl.out = lastSet.experimental.out
          /\ decision = rollout_decision(lastSet.rollout_strategy, rng)
          /\ signals[1].name = lastSet.name

C15_Witness ==
    /\ pc = "done"
    /\ exp.name = "redis migration"
    /\ exp.mismatch_handler = FnTrait("experimental")
    /\ exp.rollout_strategy = Percent_new(100)
    /\ exp.control_builder = Future(Ok(0), MaxYields)
    /\ exp.experimental_builder = Future(Ok(1), 0)
    /\ result = Ok(1)

\* Every computation the arm of this execution awaits eventually completes.
AwaitedComplete ==
    /\ exp.control_builder.type = "Future"
    /\ decision = UseExperimentalAndCompare => exp.experimental_builder.type = "Future"

\* C16: once run or run_result awaits its branches, it eventually returns if
\* every computation it awaits eventually completes (the control under
\* UseControl, both under UseExperimentalAndCompare), and it never returns if
\* one of them never completes: there is no timeout.
C16_ReturnsIffBranchesComplete ==
    /\ (pc = "running" /\ AwaitedComplete) ~> (pc = "done")
    /\ [](pc = "done" => AwaitedComplete)

C16_Witness ==
    /\ pc = "running"
    /\ decision = UseExperimentalAndCompare
    /\ exp.experimental_builder = Never
    /\ exp.control_builder.type = "Future"
    /\ ctl.done
    /\ expl.polls = 1
    /\ ~expl.done
    /\ result = NoValue

\* What an execution under UseExperimentalAndCompare yields, as a function of
\* the method, the name, the two computations' outputs and the handler alone.
Determined(m, name, c, e, handler) ==
    LET unequal == IF m = "run" THEN c /= e
                   ELSE c.tag = "Ok" /\ e.tag = "Ok" /\ c /= e
        asks == unequal \/ (m = "run_result" /\ c.tag = "Err" /\ e.tag = "Ok")
        flags == asks \/ (m = "run_result" /\ c.tag = "Ok" /\ e.tag = "Err")
    IN [ret |-> IF asks THEN on_mismatch_handler(handler, [control |-> c, experimental |-> e]) ELSE c,
        calls |-> IF asks THEN <<[control |-> c, experimental |-> e]>> ELSE <<>>,
        signals |-> <<run_total(name), run_variant(name, "experimental_and_compare")>>
                    \o (IF m = "run_result"
                        THEN <<outcome(name, "control", c), outcome(name, "experimental", e)>>
                        ELSE <<>>)
                    \o (IF flags THEN <<outcome_mismatch(name)>> ELSE <<>>)]

\* C17: under UseExperimentalAndCompare the returned value, the handler's
\* invocation and its Mismatch, and the signals emitted are the same in every
\* interleaving and completion order of the two branches: they are a function
\* of the two outputs and the handler only.
C17_InterleavingIndependent ==
    Compared =>
        LET o == Determined(method, exp.name, c_out, e_out, exp.mismatch_handler)
        IN /\ result = o.ret
           /\ handlerCalls = o.calls
           /\ signals = o.signals

C17_Witness ==
    /\ Compared
    /\ method = "run"
    /\ c_out = Val(1)
    /\ e_out = Val(1)
    /\ exp.control_builder.yields = 0
    /\ exp.experimental_builder.yields = MaxYields
    /\ ctl.polls < expl.polls
    /\ result = Val(1)
    /\ handlerCalls = <<>>

\* The handler of run_result has never been given an experimental failure.
NoExperimentalErrToHandler ==
    \A i \in 1..Len(handlerCalls) : handlerCalls[i].experimental.tag = "Ok"

\* C18 (as stated): in run_result the handler never receives a Mismatch whose
\* experimental field is Err, and run_result returns Err only when the control
\* yielded Err.
C18_ErrOnlyFromControl ==
    method = "run_result" =>
        /\ NoExperimentalErrToHandler
        /\ (pc = "done" /\ result.tag = "Err") => c_out.tag = "Err"

\* C18 (amended): in run_result the handler never receives a Mismatch whose
\* experimental field is Err and an experimental failure is never returned:
\* run_result returns Err only when the control yielded Err or when the
\* handler, invoked on two Ok values, itself returned that Err.
C18_ErrFromControlOrHandler ==
    method = "run_result" =>
        /\ NoExperimentalErrToHandler
        /\ (pc = "done" /\ e_out.tag = "Err") => (result = c_out /\ handlerCalls = <<>>)
        /\ (pc = "done" /\ result.tag = "Err") =>
              \/ c_out.tag = "Err"
              \/ /\ c_out.tag = "Ok"
                 /\ e_out.tag = "Ok"
                 /\ handlerCalls = <<[control |-> c_out, experimental |-> e_out]>>
                 /\ exp.mismatch_handler = FnTrait("fail")
                 /\ result = Fail(handlerCalls[1])

C18_Witness ==
    /\ pc = "done"
    /\ method = "run_result"
    /\ c_out = Ok(0)
    /\ e_out = Ok(1)
    /\ exp.mismatch_handler = FnTrait("fail")
    /\ result = Err(MaxErr)
    /\ Len(handlerCalls) = 1

\* C19: with the default handler, under UseControl and under
\* UseExperimentalAndCompare and for every experimental output or failure,
\* run and run_result return the control computation's output: the
\* experimental branch never changes the result.
C19_DefaultResultIsControl ==
    (pc = "done" /\ exp.mismatch_handler.type = "AlwaysControl") =>
        /\ decision \in {UseControl, UseExperimentalAndCompare}
        /\ result = ctl.out
        /\ result = exp.control_builder.out

C19_Witness ==
    /\ pc = "done"
    /\ exp.mismatch_handler.type = "AlwaysControl"
    /\ decision = UseExperimentalAndCompare
    /\ method = "run_result"
    /\ c_out = Ok(0)
    /\ e_out = Err(1)
    /\ result = Ok(0)

====
